---- MODULE Spec2Model ----
(***************************************************************************)
(* quadro2: the remote telemetry core (src/remote/remote.h) and the sensor *)
(* supervisor with its three axis fusers (src/sensing/sensors.c).          *)
(*                                                                         *)
(* Time is counted in units of 250 ms: esp_timer_get_time() returns        *)
(* microseconds, and 500000 us, the heartbeat window, is 2 units.          *)
(*                                                                         *)
(* The code reads the clock only through differences (now - lastContact),  *)
(* so the time scale slides: the clock reading `now` stays at Horizon and  *)
(* a tick moves every stored time-stamp one unit into the past.  A         *)
(* time-stamp Horizon units old, or older, is kept at 0; Horizon exceeds   *)
(* every span the code or a property compares with: no comparison changes.*)
(***************************************************************************)
EXTENDS Integers, Sequences, FiniteSets, TLC

(***************************************************************************)
(* Bounds of the model.                                                    *)
(***************************************************************************)
\* slots of xRemote_input that the model keeps (the firmware creates 32)
RemoteQueueLength == 2
\* events that a full queue may drop in one run
MaxDrops == 1
\* sessions the clients hold open at one time (the server allows 3)
MaxSessions == 1

(***************************************************************************)
(* Program constants of remote.h.                                          *)
(***************************************************************************)
REMOTE_INPUT_CONNECTED == 0
REMOTE_INPUT_DISCONNECTED == 1
REMOTE_INPUT_MESSAGE_RECEIVE == 2
REMOTE_INPUT_MESSAGE_SEND == 3
\* no event was dequeued in the iteration (xQueueReceive returned pdFALSE)
NoInputType == REMOTE_INPUT_MESSAGE_SEND + 1

\* 500000 us of `now - lastContact > 500000`, in units of 250 ms
HeartbeatWindow == 2
\* 500 / portTICK_RATE_MS, the block time of xQueueReceive, in units of 250 ms
ReceiveBlockTime == 2
\* httpdFreertosInit(..., remote.httpdConn, 3U, ...): sessions the server holds
MaxConnections == 3
\* remote.connected is a uint8_t
Uint8 == 256
\* malloc(128 * sizeof(char)) of the send producers
MessageCap == 128

\* the age, in units of 250 ms, beyond which time-stamps are not told apart
Horizon == HeartbeatWindow + 1
\* blocks of the heap: a full queue of messages, and one more
MaxBufs == RemoteQueueLength + 1

\* the null pointer, as a Websock* and as a char*
NULL == 0

Websocks == 1..MaxConnections
BufIds == 1..MaxBufs

\* frames a client sends: pong ok, and a 1-byte frame
Frames == { <<"s", "1">>, <<"c">> }

\* lengths of the command strings handed to remote_sendCommand (strlen)
Commands == { 1, 128 }

\* log lines: a format and its argument list.  "%s" prints its argument, a
\* string of the given length; "%" is a malformed format
Formats == { "%s", "%" }
Arguments == { 3, 128 }

\* sensor values of the BNO callback: the report id and the length of the
\* text that "%f,%f,..." prints for its floats
SH2_LINEAR_ACCELERATION == 4
SH2_ROTATION_VECTOR == 5
SH2_OTHER == 6
SensorValues == { [sensorId |-> SH2_LINEAR_ACCELERATION, text |-> 28],
                  [sensorId |-> SH2_ROTATION_VECTOR, text |-> 145],
                  [sensorId |-> SH2_OTHER, text |-> 0] }

\* the sink that esp_log_set_vprintf returned to remote_init
remote_defaultLog == "vprintf"

\* the string literal "s?" of the ping broadcast (no heap buffer)
PingData == <<"s", "?">>
\* the string literal "quadro2" of the greeting
HelloData == <<"q", "u", "a", "d", "r", "o", "2">>

(***************************************************************************)
(* Bounds of the model of sensors.c.                                       *)
(***************************************************************************)
\* slots of xSensors_input that the model keeps (the firmware creates 16)
SensorsQueueLength == 3
\* events the drivers stamp in one run
MaxEvents == 3
\* calls of the axis fusers in one run
MaxFuse == 3

(***************************************************************************)
(* Program constants of sensors.c.  Time-stamps of sensor events are in    *)
(* units of 500 us, so that 1000, 2000, 3000, 4000 us are 2, 4, 6, 8; all  *)
(* time-stamps are even, which keeps dt^2 / 2, dt^3 / 2 and dt^4 / 4       *)
(* whole.  Positions, velocities and variances are whole numbers of the    *)
(* matching units (the firmware computes them in float).                   *)
(***************************************************************************)
\* enum sensors_input_type_t (sensor_types.h), in the order of the tags
SENSORS_ACCELERATION == 0
SENSORS_ORIENTATION == 1
SENSORS_ALTIMETER == 2
SENSORS_ULTRASONIC == 3
SENSORS_POSITION == 4
SENSORS_GROUNDSPEED == 5
SENSORS_MAX == 6

SensorTypes == SENSORS_ACCELERATION..(SENSORS_MAX - 1)

\* SENSORS_TIMEOUT_MS * 1000, in units of 500 us
SENSORS_TIMEOUT == 4

\* tuning constants (sensors.h)
SENSORS_FUSE_Z_ERROR_ACCELERATION == 1
SENSORS_FUSE_Z_ERROR_ULTRASONIC == 1
SENSORS_FUSE_Z_ERROR_BAROMETER == 2
SENSORS_FUSE_Z_ERROR_GPS == 3
SENSORS_FUSE_Z_LIMIT_VEL == 3
SENSORS_FUSE_Y_ERROR_ACCELERATION == 1
SENSORS_FUSE_Y_ERROR_GPS == 3
SENSORS_FUSE_Y_ERROR_VELOCITY == 2
SENSORS_FUSE_Y_LIMIT_VEL == 3
SENSORS_FUSE_X_ERROR_ACCELERATION == 1
SENSORS_FUSE_X_ERROR_GPS == 3
SENSORS_FUSE_X_LIMIT_VEL == 3

\* eekf_return
eEekfReturnOk == "eEekfReturnOk"
eEekfReturnComputationFailed == "eEekfReturnComputationFailed"
EekfReturns == { eEekfReturnOk, eEekfReturnComputationFailed }

\* time-stamps and measured values of the events
Stamps == { 2, 4, 6, 8 }
Values == { -1, 1 }

\* esp_timer_get_time(), on the sliding time scale
now == Horizon

\* no time-stamp (of the history variables)
NoTime == 0 - 1

VARIABLES
    xRemote_input,   \* the queue of struct remote_input_t
    connected,       \* remote.connected
    timeoutPending,  \* remote_task: bool timeoutPending
    lastContact,     \* remote_task: int64_t lastContact
    waitStart,       \* when remote_task last entered xQueueReceive
    heap,            \* malloc'ed message buffers
    sessions,        \* number of Websocks the HTTP server holds open
    drops,           \* events dropped so far
    pingAt,          \* when the "s?" was broadcast that no MESSAGE_RECEIVE has
                     \* followed yet (NoTime: there is none)
    replyAt,         \* time-stamp of the last "s1" that answered a ping, while
                     \* it is less than ReplyQuiet old
    beats,           \* the last two heartbeat checks that sent a ping or that
                     \* stopped, since a MESSAGE_RECEIVE was processed
    last,            \* the handler that ran last, and what it was seen to do
    xSensors_input,  \* the queue of struct sensors_input_t
    sensors,         \* static struct sensors_t sensors
    sensorEvents,    \* events the drivers have stamped so far
    fuserCalls,      \* calls of the axis fusers so far
    homing,          \* how many of its three resets the running sensors_setHome
                     \* has done (0: no sensors_setHome is running)
    seen,            \* the sensor handler that ran last, and what it did
    connData,        \* HttpdConnData of the request that is served: url,
                     \* cgiArg, cgiArg2, cgiData
    wire,            \* what the HTTP engine was given to send for it
    served,          \* the calls of the CGI function for it, and the last result
    httpRequests     \* requests of embedded files so far

remoteVars == << xRemote_input, connected, timeoutPending, lastContact,
                 waitStart, heap, sessions, drops, pingAt, replyAt, beats,
                 last >>

sensorVars ==
    << xSensors_input, sensors, sensorEvents, fuserCalls, homing, seen >>

embedVars == << connData, wire, served, httpRequests >>

vars == << remoteVars, sensorVars, embedVars >>

(***************************************************************************)
(* The heap: malloc and free.                                              *)
(***************************************************************************)
\* a block: its state, its size, the bytes written to it, and the first of them
Block(state, size, written, bytes) ==
    [state |-> state, size |-> size, written |-> written, bytes |-> bytes]

FreeBuf == Block("free", 0, 0, << >>)

\* malloc returns the lowest free block
malloc(hp) == CHOOSE b \in BufIds : hp[b].state = "free" /\
                  \A c \in BufIds : hp[c].state = "free" => b <= c

HeapHasRoom(hp) == \E b \in BufIds : hp[b].state = "free"

\* free of a block that is not live corrupts the heap (double free)
free(hp, b) ==
    IF hp[b].state = "live" THEN [hp EXCEPT ![b] = FreeBuf]
    ELSE [hp EXCEPT ![b] = Block("corrupt", 0, 0, << >>)]

(***************************************************************************)
(* xQueueSend(queue, item, 0): appends, or drops the item when full.       *)
(***************************************************************************)
QueueFull(q) == Len(q) >= RemoteQueueLength

xQueueSend(q, item) == IF QueueFull(q) THEN q ELSE Append(q, item)

\* struct remote_input_t
Event(type, data, length, ws, timestamp) ==
    [type |-> type, data |-> data, length |-> length, ws |-> ws,
     timestamp |-> timestamp]

NoInput == Event(NoInputType, NULL, 0, NULL, 0)

\* a send into the HTTP engine
Send(by, kind, ws, data, bytes, length) ==
    [by |-> by, kind |-> kind, ws |-> ws, data |-> data, bytes |-> bytes,
     length |-> length]

(***************************************************************************)
(* remote_processMessage: the inbound parser.  It returns the control      *)
(* commands it forwards to the flight-control task: every branch of the    *)
(* switch is empty (the 'c' case holds a ToDo), so it forwards none.       *)
(***************************************************************************)
remote_processMessage(bytes, length) ==
    IF length < 2 THEN << >>
    ELSE CASE bytes[1] = "s" -> << >>
           [] bytes[1] = "c" -> << >>
           [] OTHER -> << >>

(***************************************************************************)
(* remote_sendMessage: the sends it makes for a MESSAGE_SEND event.        *)
(***************************************************************************)
\* (variant) the target handle is ignored: every message is broadcast
remote_sendMessage_broadcastOnly(conn, message, bytes) ==
    IF conn # 0
    THEN << Send("remote_task", "cgiWebsockBroadcast", NULL, message.data,
                 bytes, message.length) >>
    ELSE << >>

remote_sendMessage(conn, message, bytes) ==
    IF conn # 0
    THEN IF message.ws # NULL
         THEN << Send("remote_task", "cgiWebsocketSend", message.ws,
                      message.data, bytes, message.length) >>
         ELSE << Send("remote_task", "cgiWebsockBroadcast", NULL,
                      message.data, bytes, message.length) >>
    ELSE << >>

(***************************************************************************)
(* remote_task, the switch on input.type of one iteration.                 *)
(***************************************************************************)
TaskState(conn, pending, lastC, hp, out, cmds) ==
    [connected |-> conn, timeoutPending |-> pending, lastContact |-> lastC,
     heap |-> hp, sent |-> out, control |-> cmds]

\* (variant) MESSAGE_RECEIVE leaves timeoutPending as it is
remote_task_switch_keepsPending(inp, conn, pending, lastC, hp) ==
    CASE inp.type = REMOTE_INPUT_CONNECTED ->
           TaskState((conn + 1) % Uint8, pending, lastC, hp, << >>, << >>)
      [] inp.type = REMOTE_INPUT_DISCONNECTED ->
           TaskState((conn - 1) % Uint8, pending, lastC, hp, << >>, << >>)
      [] inp.type = REMOTE_INPUT_MESSAGE_RECEIVE ->
           TaskState(conn, pending, inp.timestamp, free(hp, inp.data), << >>,
                     remote_processMessage(hp[inp.data].bytes, inp.length))
      [] inp.type = REMOTE_INPUT_MESSAGE_SEND ->
           TaskState(conn, pending, lastC, free(hp, inp.data),
                     remote_sendMessage(conn, inp, hp[inp.data].bytes), << >>)
      [] OTHER ->
           TaskState(conn, pending, lastC, hp, << >>, << >>)

\* (variant) MESSAGE_RECEIVE leaves lastContact as it is
remote_task_switch_keepsLastContact(inp, conn, pending, lastC, hp) ==
    CASE inp.type = REMOTE_INPUT_CONNECTED ->
           TaskState((conn + 1) % Uint8, pending, lastC, hp, << >>, << >>)
      [] inp.type = REMOTE_INPUT_DISCONNECTED ->
           TaskState((conn - 1) % Uint8, pending, lastC, hp, << >>, << >>)
      [] inp.type = REMOTE_INPUT_MESSAGE_RECEIVE ->
           TaskState(conn, FALSE, lastC, free(hp, inp.data), << >>,
                     remote_processMessage(hp[inp.data].bytes, inp.length))
      [] inp.type = REMOTE_INPUT_MESSAGE_SEND ->
           TaskState(conn, pending, lastC, free(hp, inp.data),
                     remote_sendMessage(conn, inp, hp[inp.data].bytes), << >>)
      [] OTHER ->
           TaskState(conn, pending, lastC, hp, << >>, << >>)

remote_task_switch(inp, conn, pending, lastC, hp) ==
    CASE inp.type = REMOTE_INPUT_CONNECTED ->
           TaskState((conn + 1) % Uint8, pending, lastC, hp, << >>, << >>)
      [] inp.type = REMOTE_INPUT_DISCONNECTED ->
           TaskState((conn - 1) % Uint8, pending, lastC, hp, << >>, << >>)
      [] inp.type = REMOTE_INPUT_MESSAGE_RECEIVE ->
           TaskState(conn, FALSE, inp.timestamp, free(hp, inp.data), << >>,
                     remote_processMessage(hp[inp.data].bytes, inp.length))
      [] inp.type = REMOTE_INPUT_MESSAGE_SEND ->
           TaskState(conn, pending, lastC, free(hp, inp.data),
                     remote_sendMessage(conn, inp, hp[inp.data].bytes), << >>)
      [] OTHER ->
           TaskState(conn, pending, lastC, hp, << >>, << >>)

(***************************************************************************)
(* remote_task, the heartbeat check that ends every iteration.             *)
(***************************************************************************)
Check(branch, pending, lastC) ==
    [branch |-> branch, timeoutPending |-> pending, lastContact |-> lastC]

\* (variant) the check does not look at remote.connected
remote_task_heartbeat_anyCount(conn, pending, lastC, t) ==
    IF t - lastC > HeartbeatWindow
    THEN IF pending
         THEN Check("timeout", FALSE, lastC)
         ELSE Check("ping", TRUE, t)
    ELSE Check("none", pending, lastC)

\* (variant) the ping does not set timeoutPending
remote_task_heartbeat_neverPending(conn, pending, lastC, t) ==
    IF conn # 0 /\ t - lastC > HeartbeatWindow
    THEN IF pending
         THEN Check("timeout", FALSE, lastC)
         ELSE Check("ping", FALSE, t)
    ELSE Check("none", pending, lastC)

\* (variant) the stop leaves timeoutPending set
remote_task_heartbeat_latched(conn, pending, lastC, t) ==
    IF conn # 0 /\ t - lastC > HeartbeatWindow
    THEN IF pending
         THEN Check("timeout", TRUE, lastC)
         ELSE Check("ping", TRUE, t)
    ELSE Check("none", pending, lastC)

remote_task_heartbeat(conn, pending, lastC, t) ==
    IF conn # 0 /\ t - lastC > HeartbeatWindow
    THEN IF pending
         THEN Check("timeout", FALSE, lastC)
         ELSE Check("ping", TRUE, t)
    ELSE Check("none", pending, lastC)

PingSend == Send("remote_task", "cgiWebsockBroadcast", NULL, NULL, PingData, 2)

\* no heartbeat check has sent a ping or stopped
NoBeats == << "none", "none" >>

(***************************************************************************)
(* Producer callbacks.  Each returns the queue and the heap it leaves.     *)
(***************************************************************************)
Produced(q, hp) == [queue |-> q, heap |-> hp]

\* input.message.length is a uint8_t: the int len is truncated
remote_wsReceive(q, hp, ws, data, len, t) ==
    LET b == malloc(hp)
        hp1 == [hp EXCEPT ![b] = Block("live", len, len, data)]
    IN Produced(xQueueSend(q, Event(REMOTE_INPUT_MESSAGE_RECEIVE, b,
                                    len % Uint8, ws, t)), hp1)

\* the message fields of a CONNECTED or DISCONNECTED event are never written
\* and never read
remote_wsConnect(q) ==
    xQueueSend(q, Event(REMOTE_INPUT_CONNECTED, NULL, 0, NULL, 0))

\* (variant) the greeting goes to every session
remote_wsConnect_greeting_broadcast(ws) ==
    << Send("httpd", "cgiWebsockBroadcast", NULL, NULL, HelloData, 7) >>

\* `cgiWebsocketSend(&remote.httpd.httpdInstance, ws, "quadro2", 7, ...)`,
\* called by remote_wsConnect itself
remote_wsConnect_greeting(ws) ==
    << Send("httpd", "cgiWebsocketSend", ws, NULL, HelloData, 7) >>

remote_wsDisconnect(q) ==
    xQueueSend(q, Event(REMOTE_INPUT_DISCONNECTED, NULL, 0, NULL, 0))

\* snprintf(string, 128, ...): the length the text would have; 0 when the
\* switch on value.sensorId matches no case
remote_sensorData_length(value) ==
    IF value.sensorId \in { SH2_LINEAR_ACCELERATION, SH2_ROTATION_VECTOR }
    THEN value.text ELSE 0

Min(a, b) == IF a < b THEN a ELSE b

remote_sensorData(q, hp, value) ==
    LET b == malloc(hp)
        length == remote_sensorData_length(value)
        \* snprintf writes at most 127 characters and the terminator
        hp1 == [hp EXCEPT ![b] = Block("live", MessageCap,
                                       Min(length, MessageCap - 1) + 1,
                                       << "r" >>)]
    IN IF length <= 0 \/ length > MessageCap
       THEN Produced(q, hp)
       ELSE Produced(xQueueSend(q, Event(REMOTE_INPUT_MESSAGE_SEND, b,
                                         length, NULL, 0)), hp1)

\* strcpy(string + 1, command) writes strlen(command) + 1 bytes after the 'c'
remote_sendCommand(q, hp, command, ws) ==
    LET b == malloc(hp)
        length == command + 1
        hp1 == [hp EXCEPT ![b] = Block("live", MessageCap, 1 + command + 1,
                                       << "c" >>)]
    IN IF length > MessageCap
       THEN Produced(q, hp)
       ELSE Produced(xQueueSend(q, Event(REMOTE_INPUT_MESSAGE_SEND, b,
                                         length, ws, 0)), hp1)

(***************************************************************************)
(* remote_printLog: the log interceptor.                                   *)
(***************************************************************************)
\* what vsnprintf returns: the length of the text, negative on a bad format
vsnprintf(format, arguments) == IF format = "%s" THEN arguments ELSE -1

SinkCall(fn, format, arguments) ==
    [fn |-> fn, format |-> format, arguments |-> arguments]

Logged(q, hp, calls) == [queue |-> q, heap |-> hp, calls |-> calls]

\* (variant) the overflow path returns without calling the previous sink
remote_printLog_silentOverflow(q, hp, format, arguments) ==
    LET b == malloc(hp)
        length == vsnprintf(format, arguments) + 1
        hp1 == [hp EXCEPT ![b] = Block("live", MessageCap,
                                       1 + Min(length - 1, MessageCap - 2) + 1,
                                       << "l" >>)]
    IN IF length <= 0 \/ length > MessageCap
       THEN Logged(q, hp, << >>)
       ELSE Logged(xQueueSend(q, Event(REMOTE_INPUT_MESSAGE_SEND, b, length,
                                       NULL, 0)),
                   hp1, << SinkCall(remote_defaultLog, format, arguments) >>)

remote_printLog(q, hp, format, arguments) ==
    LET b == malloc(hp)
        length == vsnprintf(format, arguments) + 1
        \* 'l', then at most 126 characters and the terminator
        hp1 == [hp EXCEPT ![b] = Block("live", MessageCap,
                                       1 + Min(length - 1, MessageCap - 2) + 1,
                                       << "l" >>)]
    IN IF length <= 0 \/ length > MessageCap
       THEN Logged(q, hp, << SinkCall(remote_defaultLog, format, arguments) >>)
       ELSE Logged(xQueueSend(q, Event(REMOTE_INPUT_MESSAGE_SEND, b, length,
                                       NULL, 0)),
                   hp1, << SinkCall(remote_defaultLog, format, arguments) >>)

(***************************************************************************)
(* What the last handler was seen to do (history, read by the properties). *)
(***************************************************************************)
Quiet == [handler |-> "none", input |-> NoInput, bytes |-> << >>,
          sent |-> << >>, heap |-> << >>, control |-> << >>,
          connected |-> 0, branch |-> "none",
          outstanding |-> FALSE, sincePing |-> NoTime,
          format |-> "", arguments |-> 0, calls |-> << >>]

(***************************************************************************)
(* Initial state: remote_init has returned, remote_task enters its loop.   *)
(* lastContact is 0, the time of boot, which is any span in the past.      *)
(***************************************************************************)
RemoteInit ==
    /\ xRemote_input = << >>
    /\ connected = 0
    /\ timeoutPending = FALSE
    /\ lastContact \in 0..now
    /\ waitStart = now
    /\ heap = [b \in BufIds |-> FreeBuf]
    /\ sessions = 0
    /\ drops = 0
    /\ pingAt = NoTime
    /\ replyAt = NoTime
    /\ beats = NoBeats
    /\ last = Quiet

(***************************************************************************)
(* A reply is followed for ReplyQuiet units of time (the 400 ms of the     *)
(* heartbeat scenario end within the second unit of 250 ms); after that    *)
(* its time-stamp is forgotten.                                            *)
(***************************************************************************)
ReplyQuiet == 2

Recent(t) == IF t # NoTime /\ now - t < ReplyQuiet THEN t ELSE NoTime

(***************************************************************************)
(* One iteration of the loop of remote_task: the switch on the dequeued    *)
(* event (none after a 500 ms block), then the heartbeat check.            *)
(***************************************************************************)
TaskIteration(inp, q) ==
    LET s == remote_task_switch(inp, connected, timeoutPending, lastContact,
                                heap)
        c == remote_task_heartbeat(s.connected, s.timeoutPending,
                                   s.lastContact, now)
        received == inp.type = REMOTE_INPUT_MESSAGE_RECEIVE
        carries == inp.type \in { REMOTE_INPUT_MESSAGE_RECEIVE,
                                  REMOTE_INPUT_MESSAGE_SEND }
        \* the ping that is still unanswered when the heartbeat check runs
        unanswered == IF received THEN NoTime ELSE pingAt
        \* the checks since the last MESSAGE_RECEIVE, this one not counted
        before == IF received THEN NoBeats ELSE beats
    IN /\ xRemote_input' = q
       /\ connected' = s.connected
       /\ timeoutPending' = c.timeoutPending
       /\ lastContact' = c.lastContact
       /\ heap' = s.heap
       /\ waitStart' = now
       /\ pingAt' = IF c.branch = "ping" THEN now ELSE unanswered
       /\ replyAt' = IF received /\ pingAt # NoTime
                        /\ heap[inp.data].bytes = << "s", "1" >>
                     THEN Recent(inp.timestamp) ELSE replyAt
       /\ beats' = IF c.branch = "none" THEN before
                   ELSE << before[2], c.branch >>
       /\ last' = [Quiet EXCEPT
                     !.handler = "remote_task",
                     !.input = inp,
                     !.bytes = IF carries THEN heap[inp.data].bytes ELSE << >>,
                     !.sent = IF c.branch = "ping"
                              THEN Append(s.sent, PingSend) ELSE s.sent,
                     !.heap = IF carries THEN << s.heap[inp.data].state >>
                              ELSE << >>,
                     !.control = s.control,
                     !.connected = s.connected,
                     !.branch = c.branch,
                     !.outstanding = unanswered # NoTime,
                     !.sincePing = IF unanswered = NoTime THEN NoTime
                                   ELSE now - unanswered]
       /\ UNCHANGED << sessions, drops, sensorVars, embedVars >>

\* xQueueReceive returned pdTRUE
TaskReceive ==
    /\ xRemote_input # << >>
    /\ TaskIteration(Head(xRemote_input), Tail(xRemote_input))

\* xQueueReceive returned pdFALSE after its block time
TaskTimeout ==
    /\ xRemote_input = << >>
    /\ now - waitStart >= ReceiveBlockTime
    /\ TaskIteration(NoInput, xRemote_input)

(***************************************************************************)
(* The callbacks, run by the HTTP server's task and by driver tasks.       *)
(***************************************************************************)
\* a full queue drops the event: at most MaxDrops times in a run
MayDrop == QueueFull(xRemote_input) => drops < MaxDrops

Dropped == IF QueueFull(xRemote_input) THEN drops + 1 ELSE drops

taskVars == << connected, timeoutPending, lastContact, waitStart, pingAt,
               replyAt, beats >>

WsReceive ==
    \E ws \in 1..sessions, data \in Frames :
        /\ HeapHasRoom(heap)
        /\ MayDrop
        /\ LET p == remote_wsReceive(xRemote_input, heap, ws, data, Len(data),
                                     now)
           IN /\ xRemote_input' = p.queue
              /\ heap' = p.heap
              /\ drops' = IF p.heap # heap THEN Dropped ELSE drops
        /\ last' = Quiet
        /\ UNCHANGED << sessions, taskVars, sensorVars, embedVars >>

\* a frame of n bytes: a control command
LongFrame(n) == [i \in 1..n |-> IF i = 1 THEN "c" ELSE "u"]

\* frames of every tag and of no known tag, of every length from 0 on, of
\* more bytes than the send producers allocate, and of more than a uint8_t
\* counts
AnyFrames ==
    { << >>, << "c" >>, << "c", "u" >>, << "c", "u", "d" >>, << "s", "1" >>,
      << "s", "0" >>, << "r", "a" >>, << "x", "y" >>,
      LongFrame(MessageCap + 1), LongFrame(Uint8 - 1), LongFrame(Uint8),
      LongFrame(Uint8 + 2) }

\* remote_wsReceive, called by the HTTP server's task with any frame
WsReceiveAny ==
    \E ws \in 1..sessions, data \in AnyFrames :
        /\ HeapHasRoom(heap)
        /\ MayDrop
        /\ LET p == remote_wsReceive(xRemote_input, heap, ws, data, Len(data),
                                     now)
           IN /\ xRemote_input' = p.queue
              /\ heap' = p.heap
              /\ drops' = IF p.heap # heap THEN Dropped ELSE drops
              /\ last' = [Quiet EXCEPT !.handler = "remote_wsReceive",
                                       !.bytes = data]
        /\ UNCHANGED << sessions, taskVars, sensorVars, embedVars >>

\* the greeting is sent from the callback, on the HTTP server's task
WsConnect ==
    /\ sessions < MaxSessions
    /\ MayDrop
    /\ drops' = Dropped
    /\ xRemote_input' = remote_wsConnect(xRemote_input)
    /\ sessions' = sessions + 1
    /\ last' = [Quiet EXCEPT
                  !.handler = "remote_wsConnect",
                  !.sent = remote_wsConnect_greeting(sessions + 1)]
    /\ UNCHANGED << heap, taskVars, sensorVars, embedVars >>

WsDisconnect ==
    /\ sessions > 0
    /\ MayDrop
    /\ drops' = Dropped
    /\ xRemote_input' = remote_wsDisconnect(xRemote_input)
    /\ sessions' = sessions - 1
    /\ last' = Quiet
    /\ UNCHANGED << heap, taskVars, sensorVars, embedVars >>

\* (remote_init registers this callback in comments only: no task calls it)
SensorData ==
    \E value \in SensorValues :
        /\ HeapHasRoom(heap)
        /\ MayDrop
        /\ LET p == remote_sensorData(xRemote_input, heap, value)
           IN /\ xRemote_input' = p.queue
              /\ heap' = p.heap
              /\ drops' = IF p.heap # heap THEN Dropped ELSE drops
        /\ last' = Quiet
        /\ UNCHANGED << sessions, taskVars, sensorVars, embedVars >>

SendCommand ==
    \E command \in Commands, ws \in 0..sessions :
        /\ HeapHasRoom(heap)
        /\ MayDrop
        /\ LET p == remote_sendCommand(xRemote_input, heap, command, ws)
           IN /\ xRemote_input' = p.queue
              /\ heap' = p.heap
              /\ drops' = IF p.heap # heap THEN Dropped ELSE drops
        /\ last' = Quiet
        /\ UNCHANGED << sessions, taskVars, sensorVars, embedVars >>

PrintLog ==
    \E format \in Formats, arguments \in Arguments :
        /\ HeapHasRoom(heap)
        /\ MayDrop
        /\ LET p == remote_printLog(xRemote_input, heap, format, arguments)
           IN /\ xRemote_input' = p.queue
              /\ heap' = p.heap
              /\ drops' = IF p.heap # heap THEN Dropped ELSE drops
              /\ last' = [Quiet EXCEPT !.handler = "remote_printLog",
                                       !.format = format,
                                       !.arguments = arguments,
                                       !.calls = p.calls]
        /\ UNCHANGED << sessions, taskVars, sensorVars, embedVars >>

(***************************************************************************)
(* 250 ms pass: every stored time-stamp is one unit older.  The task may   *)
(* be kept from running for any time (preempted, or blocked in a send).    *)
(***************************************************************************)
Older(t) == IF t > 0 THEN t - 1 ELSE t

Aged(q) == [i \in 1..Len(q) |-> [q[i] EXCEPT !.timestamp = Older(@)]]

Tick ==
    /\ lastContact' = Older(lastContact)
    /\ waitStart' = Older(waitStart)
    /\ xRemote_input' = Aged(xRemote_input)
    /\ pingAt' = Older(pingAt)
    /\ replyAt' = Recent(Older(replyAt))
    /\ last' = Quiet
    /\ UNCHANGED << connected, timeoutPending, heap, sessions, drops, beats,
                    sensorVars, embedVars >>


(***************************************************************************)
(* sensors.c: the three axis fusers.  A vector x is << position,           *)
(* velocity >>, a matrix P is << P00, P01, P10, P11 >>.                    *)
(***************************************************************************)
\* one member Z, Y or X of struct sensors_t
Axis(x, P, z, lastTimestamp) ==
    [x |-> x, P |-> P, z |-> z, lastTimestamp |-> lastTimestamp]

\* fabsf
fabsf(v) == IF v < 0 THEN 0 - v ELSE v

\* a call into the EKF engine, as the fuser makes it
EekfCall(fn, type, input, noise, ret) ==
    [fn |-> fn, type |-> type, input |-> input, noise |-> noise, ret |-> ret]

\* what a fuser leaves: the axis, and its calls into the engine
Fused(axis, calls) == [axis |-> axis, calls |-> calls]

\* the matrix Q that the fusers fill in from q = |u| + error and dt
ProcessNoise(q, dt) ==
    << (q * dt * dt * dt * dt) \div 4, (q * dt * dt * dt) \div 2,
       (q * dt * dt * dt) \div 2, q * dt * dt >>

\* the clamp at the end of the transition callbacks
Limit(v, limit) ==
    IF v > limit THEN limit ELSE IF v < 0 - limit THEN 0 - limit ELSE v

\* (variant) the transition of Z without the clamp of the velocity
sensors_fuseZ_transition_unclamped(x, u, dt) ==
    << x[1] + dt * x[2] + ((dt * dt) \div 2) * u, x[2] + dt * u >>

\* xp = F * x + G * u with F = [1 dt; 0 1] and G = [dt^2 / 2; dt], the
\* velocity clamped
sensors_fuseZ_transition(x, u, dt) ==
    << x[1] + dt * x[2] + ((dt * dt) \div 2) * u,
       Limit(x[2] + dt * u, SENSORS_FUSE_Z_LIMIT_VEL) >>

sensors_fuseY_transition(x, u, dt) ==
    << x[1] + dt * x[2] + ((dt * dt) \div 2) * u,
       Limit(x[2] + dt * u, SENSORS_FUSE_Y_LIMIT_VEL) >>

sensors_fuseX_transition(x, u, dt) ==
    << x[1] + dt * x[2] + ((dt * dt) \div 2) * u,
       Limit(x[2] + dt * u, SENSORS_FUSE_X_LIMIT_VEL) >>

\* the row of H that the measurement callback of Z sets to 1 (column 0, the
\* position); 0 stands for eEekfReturnParameterError
sensors_fuseZ_measurement(type) ==
    CASE type = SENSORS_ULTRASONIC -> 1
      [] type = SENSORS_ALTIMETER -> 2
      [] type = SENSORS_POSITION -> 3
      [] OTHER -> 0

\* the engine's prediction: x = xp, P = F * P * F' + Q; nothing on failure
eekf_predict(x, P, xp, dt, Q, ret) ==
    IF ret # eEekfReturnOk THEN [x |-> x, P |-> P]
    ELSE [x |-> xp,
          P |-> << P[1] + dt * (P[2] + P[3]) + dt * dt * P[4] + Q[1],
                   P[2] + dt * P[4] + Q[2],
                   P[3] + dt * P[4] + Q[3],
                   P[4] + Q[4] >>]

\* the engine's lazy correction with the one measured row of z, whose H is
\* [1 0]: S = P00 + R, K = [P00; P10] / S, x = x + K * (z - x0),
\* P = (I - K * H) * P; nothing on failure
eekf_lazy_correct(x, P, z, R, row, ret) ==
    IF ret # eEekfReturnOk \/ row = 0 THEN [x |-> x, P |-> P]
    ELSE LET S == P[1] + R[row]
             y == z[row] - x[1]
         IN [x |-> << x[1] + (P[1] * y) \div S, x[2] + (P[3] * y) \div S >>,
             P |-> << P[1] - (P[1] * P[1]) \div S,
                      P[2] - (P[1] * P[2]) \div S,
                      P[3] - (P[3] * P[1]) \div S,
                      P[4] - (P[3] * P[2]) \div S >>]

\* (variant) the reset starts the time of the axis anew
sensors_fuseZ_reset_restamps(a) ==
    [a EXCEPT !.x = << 0, 0 >>, !.P = << 0, 0, 0, 1 >>, !.z = << 0, 0, 0 >>,
              !.lastTimestamp = 0]

sensors_fuseZ_reset(a) ==
    [a EXCEPT !.x = << 0, 0 >>, !.P = << 0, 0, 0, 1 >>, !.z = << 0, 0, 0 >>]

\* only z[0] of the two elements of Y.z is cleared
sensors_fuseY_reset(a) ==
    [a EXCEPT !.x = << 0, 0 >>, !.P = << 0, 0, 0, 1 >>,
              !.z = [a.z EXCEPT ![1] = 0]]

sensors_fuseX_reset(a) ==
    [a EXCEPT !.x = << 0, 0 >>, !.P = << 0, 0, 0, 1 >>, !.z = << 0 >>]

\* the prediction branch of sensors_fuseZ, past the check for a late event
sensors_fuseZ_predict(a, type, z, timestamp, ret) ==
    LET dt == timestamp - a.lastTimestamp
        Q == ProcessNoise(fabsf(z) + SENSORS_FUSE_Z_ERROR_ACCELERATION, dt)
        e == eekf_predict(a.x, a.P, sensors_fuseZ_transition(a.x, z, dt),
                          dt, Q, ret)
    IN Fused([a EXCEPT !.lastTimestamp = timestamp, !.x = e.x, !.P = e.P],
             << EekfCall("eekf_predict", type, z, Q, ret) >>)

\* the correction branch of sensors_fuseZ: an ULTRASONIC or ALTIMETER event
\* corrects; a POSITION event writes z[2] and falls into `default: return`
sensors_fuseZ_correct(a, type, z, ret) ==
    CASE type = SENSORS_ULTRASONIC ->
           LET zz == [a.z EXCEPT ![1] = z]
               R == << SENSORS_FUSE_Z_ERROR_ULTRASONIC, 0, 0 >>
               e == eekf_lazy_correct(a.x, a.P, zz, R,
                                      sensors_fuseZ_measurement(type), ret)
           IN Fused([a EXCEPT !.z = zz, !.x = e.x, !.P = e.P],
                    << EekfCall("eekf_lazy_correct", type, zz, R, ret) >>)
      [] type = SENSORS_ALTIMETER ->
           LET zz == [a.z EXCEPT ![2] = z]
               R == << 0, SENSORS_FUSE_Z_ERROR_BAROMETER, 0 >>
               e == eekf_lazy_correct(a.x, a.P, zz, R,
                                      sensors_fuseZ_measurement(type), ret)
           IN Fused([a EXCEPT !.z = zz, !.x = e.x, !.P = e.P],
                    << EekfCall("eekf_lazy_correct", type, zz, R, ret) >>)
      [] type = SENSORS_POSITION ->
           Fused([a EXCEPT !.z = [a.z EXCEPT ![3] = z]], << >>)
      [] OTHER -> Fused(a, << >>)

\* (variant) a late ACCELERATION event is predicted with like any other
sensors_fuseZ_acceptsLate(a, type, z, timestamp, ret) ==
    IF type = SENSORS_ACCELERATION
    THEN sensors_fuseZ_predict(a, type, z, timestamp, ret)
    ELSE sensors_fuseZ_correct(a, type, z, ret)

sensors_fuseZ(a, type, z, timestamp, ret) ==
    IF type = SENSORS_ACCELERATION
    THEN IF timestamp < a.lastTimestamp THEN Fused(a, << >>)
         ELSE sensors_fuseZ_predict(a, type, z, timestamp, ret)
    ELSE sensors_fuseZ_correct(a, type, z, ret)

sensors_fuseY_predict(a, type, y, timestamp, ret) ==
    LET dt == timestamp - a.lastTimestamp
        Q == ProcessNoise(fabsf(y) + SENSORS_FUSE_Y_ERROR_ACCELERATION, dt)
        e == eekf_predict(a.x, a.P, sensors_fuseY_transition(a.x, y, dt),
                          dt, Q, ret)
    IN Fused([a EXCEPT !.lastTimestamp = timestamp, !.x = e.x, !.P = e.P],
             << EekfCall("eekf_predict", type, y, Q, ret) >>)

\* POSITION writes z[0] and falls into GROUNDSPEED, which writes z[1] and
\* falls into `default: return`: no event corrects
sensors_fuseY_correct(a, type, y, ret) ==
    CASE type = SENSORS_POSITION ->
           Fused([a EXCEPT !.z = [a.z EXCEPT ![1] = y, ![2] = y]], << >>)
      [] type = SENSORS_GROUNDSPEED ->
           Fused([a EXCEPT !.z = [a.z EXCEPT ![2] = y]], << >>)
      [] OTHER -> Fused(a, << >>)

sensors_fuseY(a, type, y, timestamp, ret) ==
    IF type = SENSORS_ACCELERATION
    THEN IF timestamp < a.lastTimestamp THEN Fused(a, << >>)
         ELSE sensors_fuseY_predict(a, type, y, timestamp, ret)
    ELSE sensors_fuseY_correct(a, type, y, ret)

sensors_fuseX_predict(a, type, x, timestamp, ret) ==
    LET dt == timestamp - a.lastTimestamp
        Q == ProcessNoise(fabsf(x) + SENSORS_FUSE_X_ERROR_ACCELERATION, dt)
        e == eekf_predict(a.x, a.P, sensors_fuseX_transition(a.x, x, dt),
                          dt, Q, ret)
    IN Fused([a EXCEPT !.lastTimestamp = timestamp, !.x = e.x, !.P = e.P],
             << EekfCall("eekf_predict", type, x, Q, ret) >>)

\* (variant) GROUNDSPEED is fused on X as it is on Y: it writes a row of z
sensors_fuseX_correct_groundspeed(a, type, x, ret) ==
    CASE type = SENSORS_POSITION ->
           Fused([a EXCEPT !.z = [a.z EXCEPT ![1] = x]], << >>)
      [] type = SENSORS_GROUNDSPEED ->
           Fused([a EXCEPT !.z = [a.z EXCEPT ![1] = x]], << >>)
      [] OTHER -> Fused(a, << >>)

\* POSITION writes z[0] and falls into `default: return`
sensors_fuseX_correct(a, type, x, ret) ==
    CASE type = SENSORS_POSITION ->
           Fused([a EXCEPT !.z = [a.z EXCEPT ![1] = x]], << >>)
      [] OTHER -> Fused(a, << >>)

sensors_fuseX(a, type, x, timestamp, ret) ==
    IF type = SENSORS_ACCELERATION
    THEN IF timestamp < a.lastTimestamp THEN Fused(a, << >>)
         ELSE sensors_fuseX_predict(a, type, x, timestamp, ret)
    ELSE sensors_fuseX_correct(a, type, x, ret)

(***************************************************************************)
(* sensors.c: the supervisor task.  A log line is kept by its tag (the     *)
(* output of ESP_LOGx is not followed into the log sink).                  *)
(***************************************************************************)
\* struct sensors_input_t; the model gives every component of the vector,
\* or the distance, the one value
SensorInput(type, timestamp, value) ==
    [type |-> type, timestamp |-> timestamp, value |-> value]

NoSensorInput == SensorInput(SENSORS_MAX, 0, 0)

\* what the switch of sensors_task does with an event: the line it logs and
\* the fusers it calls; `leave` is the `continue` of the default case
Routed(log, fused, leave) == [log |-> log, fused |-> fused, leave |-> leave]

\* (variant) the calls of the fusers are not within comments
sensors_task_switch_fusing(input) ==
    CASE input.type = SENSORS_ACCELERATION ->
           Routed(<< "A" >>,
                  { "sensors_fuseX", "sensors_fuseY", "sensors_fuseZ" }, FALSE)
      [] input.type = SENSORS_ORIENTATION -> Routed(<< >>, { }, FALSE)
      [] input.type = SENSORS_ALTIMETER ->
           Routed(<< >>, { "sensors_fuseZ" }, FALSE)
      [] input.type = SENSORS_ULTRASONIC ->
           Routed(<< >>, { "sensors_fuseZ" }, FALSE)
      [] input.type = SENSORS_POSITION ->
           Routed(<< "P" >>,
                  { "sensors_fuseX", "sensors_fuseY", "sensors_fuseZ" }, FALSE)
      [] input.type = SENSORS_GROUNDSPEED ->
           Routed(<< "S" >>,
                  { "sensors_fuseX", "sensors_fuseY", "sensors_fuseZ" }, FALSE)
      [] OTHER -> Routed(<< >>, { }, TRUE)

\* every call of a fuser is within a comment
sensors_task_switch(input) ==
    CASE input.type = SENSORS_ACCELERATION -> Routed(<< "A" >>, { }, FALSE)
      [] input.type = SENSORS_ORIENTATION -> Routed(<< >>, { }, FALSE)
      [] input.type = SENSORS_ALTIMETER -> Routed(<< >>, { }, FALSE)
      [] input.type = SENSORS_ULTRASONIC -> Routed(<< >>, { }, FALSE)
      [] input.type = SENSORS_POSITION -> Routed(<< "P" >>, { }, FALSE)
      [] input.type = SENSORS_GROUNDSPEED -> Routed(<< "S" >>, { }, FALSE)
      [] OTHER -> Routed(<< >>, { }, TRUE)

uxQueueSpacesAvailable(q) == SensorsQueueLength - Len(q)

\* (variant) the queue is emptied only when no slot is left
sensors_task_flush_whenFull(q) == uxQueueSpacesAvailable(q) <= 0

\* `if (uxQueueSpacesAvailable(xSensors_input) <= 1)`, after the switch
sensors_task_flush(q) == uxQueueSpacesAvailable(q) <= 1

\* (variant) the loop over the time-outs runs over every tag
sensors_task_timeouts_allTags(timeouts, timestamp) ==
    { i \in SensorTypes : timeouts[i] < timestamp - SENSORS_TIMEOUT }

\* the sensors whose entry of sensors.timeouts is older than the time-out
sensors_task_timeouts(timeouts, timestamp) ==
    { i \in 0..(SENSORS_POSITION - 1) :
        timeouts[i] < timestamp - SENSORS_TIMEOUT }

Unseen ==
    [handler |-> "", input |-> NoSensorInput, log |-> << >>, fused |-> { },
     flushed |-> FALSE, late |-> { }]

\* sensors_init: calloc'ed matrices, the three resets; the time-stamps are
\* those of a zero-initialised static
SensorsInit ==
    /\ xSensors_input = << >>
    /\ sensors = [timeouts |-> [i \in SensorTypes |-> 0],
                  Z |-> sensors_fuseZ_reset(Axis(<< 0, 0 >>, << 0, 0, 0, 0 >>,
                                                 << 0, 0, 0 >>, 0)),
                  Y |-> sensors_fuseY_reset(Axis(<< 0, 0 >>, << 0, 0, 0, 0 >>,
                                                 << 0, 0 >>, 0)),
                  X |-> sensors_fuseX_reset(Axis(<< 0, 0 >>, << 0, 0, 0, 0 >>,
                                                 << 0 >>, 0))]
    /\ sensorEvents = 0
    /\ fuserCalls = 0
    /\ homing = 0
    /\ seen = Unseen

\* a driver task stamps an event and sends it to the queue
SensorEvent ==
    \E type \in SensorTypes, timestamp \in Stamps, value \in Values :
        /\ sensorEvents < MaxEvents
        /\ sensorEvents' = sensorEvents + 1
        /\ xSensors_input' =
               IF uxQueueSpacesAvailable(xSensors_input) = 0
               THEN xSensors_input
               ELSE Append(xSensors_input,
                           SensorInput(type, timestamp, value))
        /\ seen' = Unseen
        /\ UNCHANGED << sensors, fuserCalls, homing, remoteVars, embedVars >>

\* xQueueReceive returned pdTRUE
SensorsTaskReceive ==
    /\ xSensors_input # << >>
    /\ LET input == Head(xSensors_input)
           q == Tail(xSensors_input)
           s == sensors_task_switch(input)
           flush == ~s.leave /\ sensors_task_flush(q)
           t == IF s.leave THEN sensors.timeouts
                ELSE [sensors.timeouts EXCEPT ![input.type] = input.timestamp]
       IN /\ xSensors_input' = IF flush THEN << >> ELSE q
          /\ sensors' = [sensors EXCEPT !.timeouts = t]
          /\ seen' = [Unseen EXCEPT
                        !.handler = "sensors_task",
                        !.input = input,
                        !.log = IF flush THEN Append(s.log, "queue reset!")
                                ELSE s.log,
                        !.fused = s.fused,
                        !.flushed = flush,
                        !.late = IF s.leave THEN { }
                                 ELSE sensors_task_timeouts(t, input.timestamp)]
    /\ UNCHANGED << sensorEvents, fuserCalls, homing, remoteVars, embedVars >>

\* xQueueReceive returned pdFALSE after 5 s: the task logs that it is online
SensorsTaskIdle ==
    /\ xSensors_input = << >>
    /\ seen' = [Unseen EXCEPT !.handler = "sensors_task",
                              !.log = << "online" >>]
    /\ UNCHANGED << xSensors_input, sensors, sensorEvents, fuserCalls,
                    homing, remoteVars, embedVars >>

\* sensors_setHome, run from its first line to its last with no step of
\* another task in between: the drivers tare, the three fusers are reset
SetHome ==
    /\ homing = 0
    /\ sensors' = [sensors EXCEPT !.Z = sensors_fuseZ_reset(@),
                                  !.Y = sensors_fuseY_reset(@),
                                  !.X = sensors_fuseX_reset(@)]
    /\ seen' = [Unseen EXCEPT !.handler = "sensors_setHome"]
    /\ UNCHANGED << xSensors_input, sensorEvents, fuserCalls, homing,
                    remoteVars, embedVars >>

\* sensors_setHome as its caller's task runs it, one reset at a time; no lock
\* is taken, so that the steps of sensors_task may fall between the resets
SetHomeResetZ ==
    /\ homing = 0
    /\ homing' = 1
    /\ sensors' = [sensors EXCEPT !.Z = sensors_fuseZ_reset(@)]
    /\ seen' = Unseen
    /\ UNCHANGED << xSensors_input, sensorEvents, fuserCalls,
                    remoteVars, embedVars >>

SetHomeResetY ==
    /\ homing = 1
    /\ homing' = 2
    /\ sensors' = [sensors EXCEPT !.Y = sensors_fuseY_reset(@)]
    /\ seen' = Unseen
    /\ UNCHANGED << xSensors_input, sensorEvents, fuserCalls,
                    remoteVars, embedVars >>

SetHomeResetX ==
    /\ homing = 2
    /\ homing' = 0
    /\ sensors' = [sensors EXCEPT !.X = sensors_fuseX_reset(@)]
    /\ seen' = [Unseen EXCEPT !.handler = "sensors_setHome"]
    /\ UNCHANGED << xSensors_input, sensorEvents, fuserCalls,
                    remoteVars, embedVars >>

(***************************************************************************)
(* The fusers, applied to events one at a time.                            *)
(***************************************************************************)
FuseZ ==
    \E type \in SensorTypes, timestamp \in Stamps, value \in Values,
       ret \in EekfReturns :
        /\ fuserCalls < MaxFuse
        /\ fuserCalls' = fuserCalls + 1
        /\ LET f == sensors_fuseZ(sensors.Z, type, value, timestamp, ret)
           IN /\ sensors' = [sensors EXCEPT !.Z = f.axis]
              /\ seen' = [Unseen EXCEPT
                            !.handler = "sensors_fuseZ",
                            !.input = SensorInput(type, timestamp, value)]
        /\ UNCHANGED << xSensors_input, sensorEvents, homing,
                        remoteVars, embedVars >>

FuseY ==
    \E type \in SensorTypes, timestamp \in Stamps, value \in Values,
       ret \in EekfReturns :
        /\ fuserCalls < MaxFuse
        /\ fuserCalls' = fuserCalls + 1
        /\ LET f == sensors_fuseY(sensors.Y, type, value, timestamp, ret)
           IN /\ sensors' = [sensors EXCEPT !.Y = f.axis]
              /\ seen' = [Unseen EXCEPT
                            !.handler = "sensors_fuseY",
                            !.input = SensorInput(type, timestamp, value)]
        /\ UNCHANGED << xSensors_input, sensorEvents, homing,
                        remoteVars, embedVars >>

FuseX ==
    \E type \in SensorTypes, timestamp \in Stamps, value \in Values,
       ret \in EekfReturns :
        /\ fuserCalls < MaxFuse
        /\ fuserCalls' = fuserCalls + 1
        /\ LET f == sensors_fuseX(sensors.X, type, value, timestamp, ret)
           IN /\ sensors' = [sensors EXCEPT !.X = f.axis]
              /\ seen' = [Unseen EXCEPT
                            !.handler = "sensors_fuseX",
                            !.input = SensorInput(type, timestamp, value)]
        /\ UNCHANGED << xSensors_input, sensorEvents, homing,
                        remoteVars, embedVars >>

(***************************************************************************)
(* The streamer of the embedded files, remote_sendEmbedded.                *)
(***************************************************************************)
\* requests of embedded files in a run
MaxRequests == 2

\* calls of the CGI function that the HTTP engine makes for one request
MaxCalls == 3

\* the bytes of a chunk
ChunkLength == 1024

\* the values of a pointer and of a uint32_t: both are of 32 bits on the
\* target, scaled here to 13 bits, which hold every file of the model
AddressSpace == 8192

HTTPD_CGI_MORE == "HTTPD_CGI_MORE"

HTTPD_CGI_DONE == "HTTPD_CGI_DONE"

HTTPD_CGI_NOTFOUND == "HTTPD_CGI_NOTFOUND"

\* no call of the CGI function has returned yet
NoStatus == ""

\* the magic number of gzip with DEFLATE
GzipMagic == << 31, 139, 8 >>

\* the files that the linker has embedded: where each starts, how many bytes
\* it has before its null terminator, and its first bytes
Embedded ==
    { [start |-> 16, length |-> 1, head |-> << 31 >>],
      [start |-> 32, length |-> 2, head |-> << 31, 139 >>],
      [start |-> 48, length |-> 3, head |-> GzipMagic],
      [start |-> 64, length |-> ChunkLength - 1, head |-> << 60, 33, 68 >>],
      [start |-> 1100, length |-> ChunkLength, head |-> GzipMagic],
      [start |-> 2200, length |-> ChunkLength + 1, head |-> << 31, 139, 0 >>],
      [start |-> 3300, length |-> 2 * ChunkLength, head |-> << 123, 34, 110 >>],
      [start |-> 5400, length |-> 2 * ChunkLength + 1, head |-> GzipMagic] }

\* the byte at an address: within a file its first bytes, then bytes that
\* are not null and differ from their neighbours and from the byte one chunk
\* on, then the null terminator; 255 outside of the files
Byte(a) ==
    LET at == { f \in Embedded : f.start <= a /\ a <= f.start + f.length }
    IN IF at = { } THEN 255
       ELSE LET f == CHOOSE g \in at : TRUE
            IN IF a = f.start + f.length THEN 0
               ELSE IF a - f.start < Len(f.head) THEN f.head[a - f.start + 1]
               ELSE 1 + (a % 251)

\* the bytes of memory from ptr on
Bytes(ptr, len) == [i \in 1..len |-> Byte((ptr + i - 1) % AddressSpace)]

Urls == { "/", "/index.html", "/manifest.json", "/favicon.ico", "/script.js" }

\* the Content-Type that the HTTP engine derives from the suffix of the URL
httpdGetMimetype(url) ==
    CASE url = "/manifest.json" -> "text/json"
      [] url = "/favicon.ico" -> "image/x-icon"
      [] url = "/script.js" -> "text/javascript"
      [] OTHER -> "text/html"

\* ROUTE_CGI_ARG2(url, remote_sendEmbedded, start, end): the routes of the
\* files, and routes whose pointers are null, inverted, equal, or around a
\* null terminator only
Routes ==
    { [url |-> u, cgiArg |-> f.start, cgiArg2 |-> f.start + f.length + 1] :
        u \in Urls, f \in Embedded }
    \cup { [url |-> "/", cgiArg |-> r[1], cgiArg2 |-> r[2]] :
             r \in { << NULL, NULL >>, << NULL, 17 >>, << 16, NULL >>,
                     << 48, 32 >>, << 16, 16 >>, << 16, 17 >> } }

NoConn == [url |-> "", cgiArg |-> NULL, cgiArg2 |-> NULL, cgiData |-> 0]

\* what the functions of the HTTP engine are given to send
Wire(fn, text, data) == [fn |-> fn, text |-> text, data |-> data]

httpdStartResponse(code) == Wire("httpdStartResponse", << >>, << code >>)

httpdHeader(field, val) == Wire("httpdHeader", << field, val >>, << >>)

httpdEndHeaders == Wire("httpdEndHeaders", << >>, << >>)

httpdSend(ptr, len) == Wire("httpdSend", << >>, Bytes(ptr, len))

\* (variant) the end pointer is not decremented
PointerBefore_same(p) == { p }

\* `(const char*) connData->cgiArg2 - 1`: the byte before p; of the null
\* pointer the decrement is undefined: it wraps on the target, and a build
\* may as well take the result for null
PointerBefore(p) ==
    IF p = NULL THEN { AddressSpace - 1, NULL } ELSE { p - 1 }

\* (variant) the status and the headers are sent with every call
remote_sendEmbedded_first_always(sentLength) == TRUE

\* `if (*sentLength == 0)`
remote_sendEmbedded_first(sentLength) == sentLength = 0

\* the test of the first three bytes for the magic number, left to right
remote_sendEmbedded_gzip(fileStart) ==
    /\ Byte(fileStart) = GzipMagic[1]
    /\ Byte((fileStart + 1) % AddressSpace) = GzipMagic[2]
    /\ Byte((fileStart + 2) % AddressSpace) = GzipMagic[3]

\* (variant) what remains is sent in one piece
remote_sendEmbedded_chunk_whole(remainingLength) == remainingLength

\* the bytes that a call sends of the remainingLength that are left
remote_sendEmbedded_chunk(remainingLength) ==
    IF remainingLength <= ChunkLength THEN remainingLength ELSE ChunkLength

\* what a call leaves: connData, what it has sent, and what it returns
Served(c, sent, status) == [connData |-> c, sent |-> sent, status |-> status]

remote_sendEmbedded(c, fileEnd) ==
    LET fileStart == c.cgiArg
        sentLength == c.cgiData
        fileLength == (fileEnd - fileStart) % AddressSpace
    IN IF fileStart = NULL \/ fileEnd = NULL \/ fileEnd <= fileStart
       THEN Served(c, << >>, HTTPD_CGI_NOTFOUND)
       ELSE LET response ==
                    IF remote_sendEmbedded_first(sentLength)
                    THEN << httpdStartResponse(200),
                            httpdHeader("Content-Type",
                                        httpdGetMimetype(c.url)) >>
                         \o (IF remote_sendEmbedded_gzip(fileStart)
                             THEN << httpdHeader("Content-Encoding", "gzip") >>
                             ELSE << >>)
                         \o << httpdEndHeaders >>
                    ELSE << >>
                remainingLength == (fileLength - sentLength) % AddressSpace
                len == remote_sendEmbedded_chunk(remainingLength)
            IN Served([c EXCEPT !.cgiData = (sentLength + len) % AddressSpace],
                      response
                      \o << httpdSend((fileStart + sentLength) % AddressSpace,
                                      len) >>,
                      IF remainingLength <= ChunkLength THEN HTTPD_CGI_DONE
                      ELSE HTTPD_CGI_MORE)

NotServed == [status |-> NoStatus, calls |-> 0]

EmbeddedInit ==
    /\ connData = NoConn
    /\ wire = << >>
    /\ served = NotServed
    /\ httpRequests = 0

\* the HTTP engine matches a request to a route of remote_sendEmbedded; the
\* request before it is over
HttpRequest ==
    \E r \in Routes :
        /\ httpRequests < MaxRequests
        /\ served.status # HTTPD_CGI_MORE
        /\ httpRequests' = httpRequests + 1
        /\ connData' = [url |-> r.url, cgiArg |-> r.cgiArg,
                        cgiArg2 |-> r.cgiArg2, cgiData |-> 0]
        /\ wire' = << >>
        /\ served' = NotServed
        /\ UNCHANGED << remoteVars, sensorVars >>

\* the HTTP engine calls remote_sendEmbedded for the request: the first
\* time, and again while the function returns HTTPD_CGI_MORE
SendEmbedded ==
    /\ httpRequests > 0
    /\ served.status \in { NoStatus, HTTPD_CGI_MORE }
    /\ served.calls < MaxCalls
    /\ \E fileEnd \in PointerBefore(connData.cgiArg2) :
          LET s == remote_sendEmbedded(connData, fileEnd)
          IN /\ connData' = s.connData
             /\ wire' = wire \o s.sent
             /\ served' = [status |-> s.status, calls |-> served.calls + 1]
    /\ UNCHANGED << httpRequests, remoteVars, sensorVars >>

Init == RemoteInit /\ SensorsInit /\ EmbeddedInit

\* the start of the runs in which the remote core takes no step: that core
\* is in the one state of long after boot
InitSensors == Init /\ lastContact = 0

Next ==
    \/ TaskReceive
    \/ TaskTimeout
    \/ WsReceive
    \/ WsConnect
    \/ WsDisconnect
    \/ SendCommand
    \/ PrintLog
    \/ Tick

Spec == Init /\ [][Next]_vars

(***************************************************************************)
(* Fair scheduling: remote_task is run whenever it stays ready (an event   *)
(* is queued, or its block time is over), and time passes.  The clients    *)
(* open and close sessions and send frames, the firmware logs.             *)
(***************************************************************************)
NextFair ==
    \/ TaskReceive
    \/ TaskTimeout
    \/ WsReceive
    \/ WsConnect
    \/ WsDisconnect
    \/ PrintLog
    \/ Tick

SpecFair ==
    /\ Init
    /\ [][NextFair]_vars
    /\ WF_vars(TaskReceive)
    /\ WF_vars(TaskTimeout)
    /\ WF_vars(Tick)

(***************************************************************************)
(* The remote core receiving frames of any content and length: clients     *)
(* connect and send, remote_task takes the events.                         *)
(***************************************************************************)
NextFrames ==
    \/ WsConnect
    \/ WsReceiveAny
    \/ TaskReceive

SpecFrames == InitSensors /\ [][NextFrames]_vars

(***************************************************************************)
(* The remote core taking MESSAGE_SEND events of its three producers, with *)
(* texts of every length about the 128 bytes of a buffer.                  *)
(***************************************************************************)
\* strlen(command) of the strings handed to remote_sendCommand
AnyCommands == { 0, 1, MessageCap - 2, MessageCap - 1, MessageCap }

\* lengths of the text that the "%s" of a log line prints
AnyArguments == { 0, 3, MessageCap - 2, MessageCap - 1, MessageCap }

\* sensor values, with the length of the text printed for their floats
AnySensorValues ==
    { [sensorId |-> id, text |-> n] :
        id \in { SH2_LINEAR_ACCELERATION, SH2_ROTATION_VECTOR },
        n \in { 28, MessageCap - 1, MessageCap, MessageCap + 1 } }
    \cup { [sensorId |-> SH2_OTHER, text |-> 0] }

SendCommandAny ==
    \E command \in AnyCommands, ws \in 0..sessions :
        /\ HeapHasRoom(heap)
        /\ MayDrop
        /\ LET p == remote_sendCommand(xRemote_input, heap, command, ws)
           IN /\ xRemote_input' = p.queue
              /\ heap' = p.heap
              /\ drops' = IF p.heap # heap THEN Dropped ELSE drops
        /\ last' = [Quiet EXCEPT !.handler = "remote_sendCommand",
                                 !.arguments = command]
        /\ UNCHANGED << sessions, taskVars, sensorVars, embedVars >>

PrintLogAny ==
    \E format \in Formats, arguments \in AnyArguments :
        /\ HeapHasRoom(heap)
        /\ MayDrop
        /\ LET p == remote_printLog(xRemote_input, heap, format, arguments)
           IN /\ xRemote_input' = p.queue
              /\ heap' = p.heap
              /\ drops' = IF p.heap # heap THEN Dropped ELSE drops
              /\ last' = [Quiet EXCEPT !.handler = "remote_printLog",
                                       !.format = format,
                                       !.arguments = arguments,
                                       !.calls = p.calls]
        /\ UNCHANGED << sessions, taskVars, sensorVars, embedVars >>

SensorDataAny ==
    \E value \in AnySensorValues :
        /\ HeapHasRoom(heap)
        /\ MayDrop
        /\ LET p == remote_sensorData(xRemote_input, heap, value)
           IN /\ xRemote_input' = p.queue
              /\ heap' = p.heap
              /\ drops' = IF p.heap # heap THEN Dropped ELSE drops
        /\ last' = [Quiet EXCEPT !.handler = "remote_sensorData",
                                 !.arguments = value.text]
        /\ UNCHANGED << sessions, taskVars, sensorVars, embedVars >>

NextProducers ==
    \/ WsConnect
    \/ SendCommandAny
    \/ PrintLogAny
    \/ SensorDataAny
    \/ TaskReceive

SpecProducers == InitSensors /\ [][NextProducers]_vars

(***************************************************************************)
(* The sensor supervisor: the drivers send events, sensors_task takes      *)
(* them, sensors_setHome is called.                                        *)
(***************************************************************************)
NextSensors ==
    \/ SensorEvent
    \/ SensorsTaskReceive
    \/ SensorsTaskIdle
    \/ SetHome

SpecSensors == InitSensors /\ [][NextSensors]_vars

(***************************************************************************)
(* The sensor supervisor while another task runs sensors_setHome: the      *)
(* steps of the two tasks in every order.                                  *)
(***************************************************************************)
NextHome ==
    \/ SensorEvent
    \/ SensorsTaskReceive
    \/ SensorsTaskIdle
    \/ SetHomeResetZ
    \/ SetHomeResetY
    \/ SetHomeResetX

SpecHome == InitSensors /\ [][NextHome]_vars

(***************************************************************************)
(* The axis fusers, each applied to sequences of events of every tag, in   *)
(* any order of their time-stamps, with resets in between.                 *)
(***************************************************************************)
NextFuse ==
    \/ FuseZ
    \/ FuseY
    \/ FuseX
    \/ SetHome

SpecFuse == InitSensors /\ [][NextFuse]_vars

(***************************************************************************)
(* The HTTP engine serving embedded files, one request after the other.    *)
(***************************************************************************)
NextEmbedded ==
    \/ HttpRequest
    \/ SendEmbedded

SpecEmbedded == InitSensors /\ [][NextEmbedded]_vars

(***************************************************************************)
(* Properties of the remote telemetry core.                                *)
(***************************************************************************)
TaskRan == last.handler = "remote_task"

Received == TaskRan /\ last.input.type = REMOTE_INPUT_MESSAGE_RECEIVE

Pinged == TaskRan /\ last.branch = "ping"

Stopped == TaskRan /\ last.branch = "timeout"

Idle == connected = 0

\* C1: heartbeat loss.  Under fair scheduling, whenever the connection count
\* is > 0, the task broadcasts "s?" and after it takes the link-timeout
\* branch, unless a MESSAGE_RECEIVE is dequeued or the count returns to 0
\* before.
C1_HeartbeatLoss ==
    [](~Idle => <>(\/ Received
                   \/ Idle
                   \/ Pinged /\ <>(Stopped \/ Received \/ Idle)))

\* the link-timeout branch is taken on a link that stayed open and silent
C1_Witness == Stopped /\ ~Idle /\ replyAt = NoTime

\* C2: the link-timeout branch is taken only in a heartbeat check with a
\* connection count > 0, with an "s?" broadcast and no MESSAGE_RECEIVE
\* processed since, and with more than 500 ms elapsed since that "s?".
C2_StopOnlyAfterPing ==
    Stopped => /\ last.connected > 0
               /\ last.outstanding
               /\ last.sincePing > HeartbeatWindow

C2_Witness == Stopped /\ last.input.type = NoInputType

\* C3, as the specification states it: after an iteration that processed a MESSAGE_RECEIVE no ping
\* is pending, no "s?" was broadcast and no emergency stop was raised.
C3_ReceiveReturnsToAlive ==
    Received => /\ ~timeoutPending
                /\ last.branch = "none"
                /\ last.sent = << >>

\* C3, as the code has it: an iteration that processed a MESSAGE_RECEIVE raises no
\* emergency stop; it broadcasts "s?" (once) and leaves the ping pending
\* exactly when the connection count is > 0 and the message was enqueued more
\* than 500 ms before the check.
C3_ReceiveNeverStops ==
    Received =>
        LET stale == connected # 0 /\
                     now - last.input.timestamp > HeartbeatWindow
        IN /\ last.branch # "timeout"
           /\ (last.branch = "ping") = stale
           /\ timeoutPending = stale
           /\ last.sent = IF stale THEN << PingSend >> ELSE << >>
           /\ lastContact = IF stale THEN now ELSE last.input.timestamp

\* a stale MESSAGE_RECEIVE was processed on an open link
C3_Witness == Received /\ last.branch = "ping" /\ last.input.length = 2

\* C4: heartbeat normal.  Once an "s1" that answers an "s?" has been
\* processed, no check broadcasts "s?" or takes the link-timeout branch
\* earlier than 400 ms after the reply (its time-stamp).
C4_QuietAfterReply ==
    replyAt # NoTime => ~Pinged /\ ~Stopped

\* after the reply the check ran again on the open link, and kept quiet
C4_Witness ==
    /\ replyAt # NoTime
    /\ now - replyAt > 0
    /\ TaskRan
    /\ last.input.type # REMOTE_INPUT_MESSAGE_RECEIVE
    /\ connected = 1

\* C5: the connection count stays within 0..3.
C5_ConnectedInRange == connected \in 0..MaxConnections

\* the queued events that hold block b
Holders(b) == { i \in 1..Len(xRemote_input) :
                  /\ xRemote_input[i].type \in { REMOTE_INPUT_MESSAGE_RECEIVE,
                                                 REMOTE_INPUT_MESSAGE_SEND }
                  /\ xRemote_input[i].data = b }

\* C6: every message buffer is released exactly once: a live block is held
\* by exactly one queued event, never leaked, and no block is released twice.
C6_BuffersReleasedOnce ==
    \A b \in BufIds :
        /\ heap[b].state # "corrupt"
        /\ heap[b].state = "live" => Cardinality(Holders(b)) = 1
        /\ heap[b].state = "free" => Holders(b) = {}

\* C7: an iteration that dequeued a MESSAGE_SEND sends its buffer exactly once
\* when the connection count is > 0 (to the stored handle, or to all when the
\* handle is NULL), not at all when the count is 0, and releases the buffer.
C7_SendRouting ==
    (TaskRan /\ last.input.type = REMOTE_INPUT_MESSAGE_SEND) =>
        LET m == last.input
            Mine(x) == x.data = m.data
            mine == SelectSeq(last.sent, Mine)
        IN /\ last.heap = << "free" >>
           /\ last.connected = 0 => mine = << >>
           /\ last.connected # 0 =>
                /\ Len(mine) = 1
                /\ mine[1].length = m.length
                /\ mine[1].ws = m.ws
                /\ mine[1].kind = IF m.ws # NULL THEN "cgiWebsocketSend"
                                  ELSE "cgiWebsockBroadcast"

\* a MESSAGE_SEND with a target handle was dequeued on an open link
C7_Witness ==
    /\ TaskRan
    /\ last.input.type = REMOTE_INPUT_MESSAGE_SEND
    /\ last.input.ws # NULL
    /\ last.connected # 0

\* C8: log passthrough.  Every call of the interceptor calls the previous
\* sink, and nothing else, exactly once, with the format and the arguments it
\* was given.
C8_LogPassthrough ==
    last.handler = "remote_printLog" =>
        last.calls = << SinkCall("vprintf", last.format, last.arguments) >>

\* the interceptor was called with a line that overflows the buffer
C8_Witness ==
    /\ last.handler = "remote_printLog"
    /\ vsnprintf(last.format, last.arguments) + 1 > MessageCap

(***************************************************************************)
(* Properties of the sensor supervisor and of the fusers.                  *)
(***************************************************************************)
SensorsTaskRan == seen.handler = "sensors_task" /\ seen.input.type # SENSORS_MAX

\* the fusers that section 4.3 of the specification routes a tag to
RouteOf(type) ==
    CASE type \in { SENSORS_ACCELERATION, SENSORS_POSITION } ->
           { "sensors_fuseX", "sensors_fuseY", "sensors_fuseZ" }
      [] type = SENSORS_GROUNDSPEED -> { "sensors_fuseX", "sensors_fuseY" }
      [] type \in { SENSORS_ULTRASONIC, SENSORS_ALTIMETER } ->
           { "sensors_fuseZ" }
      [] OTHER -> { }

\* C9: sensors_task passes each event it dequeues to the fusers of its tag:
\* ACCELERATION and POSITION to X, Y and Z, GROUNDSPEED to X and Y,
\* ULTRASONIC and ALTIMETER to Z, ORIENTATION to none.
C9_RoutesByTag == SensorsTaskRan => seen.fused = RouteOf(seen.input.type)

FuserRan == seen.handler \in { "sensors_fuseZ", "sensors_fuseY", "sensors_fuseX" }

\* C10: in every fuser lastTimestamp never decreases; an ACCELERATION event
\* whose time-stamp is below lastTimestamp is dropped and leaves
\* lastTimestamp, x and P as they are, and every other ACCELERATION event
\* (one with the time-stamp equal to lastTimestamp too) sets lastTimestamp
\* to its time-stamp.
C10_LastTimestampMonotone ==
    [][LET e == seen'.input
           Late(a) == e.timestamp < a.lastTimestamp
           Kept(a, b) == /\ b.lastTimestamp = a.lastTimestamp
                         /\ b.x = a.x
                         /\ b.P = a.P
           Holds(a, b) == IF Late(a) THEN Kept(a, b)
                          ELSE b.lastTimestamp = e.timestamp
       IN /\ sensors'.Z.lastTimestamp >= sensors.Z.lastTimestamp
          /\ sensors'.Y.lastTimestamp >= sensors.Y.lastTimestamp
          /\ sensors'.X.lastTimestamp >= sensors.X.lastTimestamp
          /\ FuserRan' /\ e.type = SENSORS_ACCELERATION =>
                CASE seen'.handler = "sensors_fuseZ" ->
                       Holds(sensors.Z, sensors'.Z)
                  [] seen'.handler = "sensors_fuseY" ->
                       Holds(sensors.Y, sensors'.Y)
                  [] OTHER -> Holds(sensors.X, sensors'.X)]_vars

\* the third of the events stamped 1000, 3000, 2000 us is dropped, after two
\* predictions have moved x and P
C10_Witness ==
    /\ seen.handler = "sensors_fuseZ"
    /\ seen.input.type = SENSORS_ACCELERATION
    /\ seen.input.timestamp = 4
    /\ sensors.Z.lastTimestamp = 6
    /\ sensors.Z.x # << 0, 0 >>
    /\ sensors.Z.P # << 0, 0, 0, 1 >>
    /\ fuserCalls = 3

\* the step is a call of the fuser named h with an ACCELERATION event that
\* is not late, and the engine returns ret
Predicted(h, ret) ==
    LET e == seen'.input
    IN /\ seen'.handler = h
       /\ e.type = SENSORS_ACCELERATION
       /\ CASE h = "sensors_fuseZ" ->
                /\ e.timestamp >= sensors.Z.lastTimestamp
                /\ sensors'.Z = sensors_fuseZ(sensors.Z, e.type, e.value,
                                              e.timestamp, ret).axis
           [] h = "sensors_fuseY" ->
                /\ e.timestamp >= sensors.Y.lastTimestamp
                /\ sensors'.Y = sensors_fuseY(sensors.Y, e.type, e.value,
                                              e.timestamp, ret).axis
           [] OTHER ->
                /\ e.timestamp >= sensors.X.lastTimestamp
                /\ sensors'.X = sensors_fuseX(sensors.X, e.type, e.value,
                                              e.timestamp, ret).axis

\* C11: after every prediction (an ACCELERATION event that is not late, the
\* engine returning OK) the velocity x[1] of the axis is within
\* -VEL_LIMIT .. VEL_LIMIT of that axis, whatever the state before.
C11_VelocityClamped ==
    [][/\ Predicted("sensors_fuseZ", eEekfReturnOk) =>
             fabsf(sensors'.Z.x[2]) <= SENSORS_FUSE_Z_LIMIT_VEL
       /\ Predicted("sensors_fuseY", eEekfReturnOk) =>
             fabsf(sensors'.Y.x[2]) <= SENSORS_FUSE_Y_LIMIT_VEL
       /\ Predicted("sensors_fuseX", eEekfReturnOk) =>
             fabsf(sensors'.X.x[2]) <= SENSORS_FUSE_X_LIMIT_VEL]_vars

\* the first event, of acceleration 1 over 4 units of time, would give the
\* velocity 4: the clamp has cut it to the limit
C11_Witness ==
    /\ seen.handler = "sensors_fuseZ"
    /\ seen.input = SensorInput(SENSORS_ACCELERATION, 4, 1)
    /\ fuserCalls = 1
    /\ sensors.Z.x[2] = SENSORS_FUSE_Z_LIMIT_VEL

\* C12: neither queue holds more events than its capacity, and an iteration
\* of sensors_task that handled an event and then finds at most one free
\* slot in its queue empties the queue and logs "queue reset!" (and only
\* then), within that iteration.
C12_QueueBound ==
    [][/\ Len(xSensors_input') <= SensorsQueueLength
       /\ Len(xRemote_input') <= RemoteQueueLength
       /\ SensorsTaskRan' =>
             LET q == Tail(xSensors_input)
                 reset == SelectSeq(seen'.log, LAMBDA l : l = "queue reset!")
             IN IF SensorsQueueLength - Len(q) <= 1
                THEN /\ xSensors_input' = << >>
                     /\ seen'.flushed
                     /\ reset = << "queue reset!" >>
                ELSE /\ xSensors_input' = q
                     /\ ~seen'.flushed
                     /\ reset = << >>]_vars

\* the queue was full, the task took one event and emptied the queue
C12_Witness ==
    /\ SensorsTaskRan
    /\ seen.flushed
    /\ xSensors_input = << >>
    /\ sensorEvents = SensorsQueueLength


\* the tags of the GNSS receiver
GnssTypes == { SENSORS_POSITION, SENSORS_GROUNDSPEED }

\* C13: an iteration of sensors_task that handled an event has set the
\* time-out entry of the event's tag to its time-stamp, and has logged a
\* time-out for exactly the sensors i other than the GNSS tags whose entry
\* is below time-stamp - TIMEOUT: never for POSITION or GROUNDSPEED, never
\* for the tag of the event itself.
C13_TimeoutWarnings ==
    SensorsTaskRan =>
        LET e == seen.input
        IN /\ sensors.timeouts[e.type] = e.timestamp
           /\ seen.late = { i \in SensorTypes \ GnssTypes :
                              sensors.timeouts[i] <
                                  e.timestamp - SENSORS_TIMEOUT }
           /\ seen.late \cap GnssTypes = { }
           /\ e.type \notin seen.late

\* a GROUNDSPEED event found other sensors late, and POSITION, as old as
\* they, not reported
C13_Witness ==
    /\ SensorsTaskRan
    /\ seen.input.type = SENSORS_GROUNDSPEED
    /\ seen.late # { }
    /\ sensors.timeouts[SENSORS_POSITION] <
           seen.input.timestamp - SENSORS_TIMEOUT

\* the vector z of an axis is cleared
Cleared(z) == \A i \in 1..Len(z) : z[i] = 0

\* the state of an axis after reset(), as the specification has it
Rebaselined(a) ==
    /\ a.x = << 0, 0 >>
    /\ a.P = << 0, 0, 0, 1 >>
    /\ Cleared(a.z)

\* C14: after the resets of sensors_setHome each of the axes Z, Y and X has
\* x = 0, P = [0 0; 0 1] and every row of z cleared.
C14_ResetClears ==
    seen.handler = "sensors_setHome" =>
        /\ Rebaselined(sensors.Z)
        /\ Rebaselined(sensors.Y)
        /\ Rebaselined(sensors.X)

\* the axis of the fuser named h, in the state s of the sensors
AxisOf(s, h) ==
    CASE h = "sensors_fuseZ" -> s.Z
      [] h = "sensors_fuseY" -> s.Y
      [] OTHER -> s.X

\* what the fuser named h leaves of the axis a for the event e, the engine
\* returning ret
FuserOf(h, a, e, ret) ==
    CASE h = "sensors_fuseZ" ->
           sensors_fuseZ(a, e.type, e.value, e.timestamp, ret)
      [] h = "sensors_fuseY" ->
           sensors_fuseY(a, e.type, e.value, e.timestamp, ret)
      [] OTHER ->
           sensors_fuseX(a, e.type, e.value, e.timestamp, ret)

\* the step is a call of the fuser named h that calls the engine, and the
\* engine returns a failure
EngineFailed(h) ==
    LET f == FuserOf(h, AxisOf(sensors, h), seen'.input,
                     eEekfReturnComputationFailed)
    IN /\ seen'.handler = h
       /\ f.calls # << >>
       /\ f.calls[1].ret # eEekfReturnOk
       /\ AxisOf(sensors', h) = f.axis

\* C15: when the engine's predict or correct returns a failure for an event,
\* the axis (x, P, z and lastTimestamp) is after the event what it was before
\* the event.
C15_FailureLeavesAxis ==
    [][\A h \in { "sensors_fuseZ", "sensors_fuseY", "sensors_fuseX" } :
          EngineFailed(h) => AxisOf(sensors', h) = AxisOf(sensors, h)]_vars

\* sensors_setHome has reset some of the axes and not yet the others
PartlyReset == homing \in { 1, 2 }

ValidFile(c) ==
    /\ c.cgiArg # NULL
    /\ c.cgiArg2 # NULL
    /\ c.cgiArg < c.cgiArg2 - 1

\* the bytes of the file before its null terminator
FileLength(c) == c.cgiArg2 - 1 - c.cgiArg

\* the bytes given to httpdSend, in their order
RECURSIVE Body(_)
Body(w) ==
    IF w = << >> THEN << >>
    ELSE (IF Head(w).fn = "httpdSend" THEN Head(w).data ELSE << >>)
         \o Body(Tail(w))

Called == served.calls > 0

\* C17: the bytes sent for a file over the calls are, in their order, the
\* bytes of the file from its start: as many as the counter says after each
\* call and, when the function returns HTTPD_CGI_DONE, all of them up to the
\* byte before the null terminator, which is not sent.
C17_ChunksRoundTrip ==
    (ValidFile(connData) /\ Called) =>
        /\ Body(wire) = Bytes(connData.cgiArg, connData.cgiData)
        /\ served.status = HTTPD_CGI_DONE =>
               Body(wire) = Bytes(connData.cgiArg, FileLength(connData))

\* a file of two chunks and a byte is done with its third call
C17_Witness ==
    /\ served.status = HTTPD_CGI_DONE
    /\ served.calls = 3
    /\ FileLength(connData) = 2 * ChunkLength + 1
    /\ Len(Body(wire)) = 2 * ChunkLength + 1
    /\ Body(wire)[2 * ChunkLength + 1] # 0

\* the calls of httpdSend among what was given to the HTTP engine
Sends(w) == SelectSeq(w, LAMBDA i : i.fn = "httpdSend")

\* the chunks of a file of n bytes
Chunks(n) == (n + ChunkLength - 1) \div ChunkLength

\* C18: every call for a file sends one chunk of at most ChunkLength bytes
\* and returns HTTPD_CGI_MORE if and only if bytes of the file are unsent
\* after it, HTTPD_CGI_DONE otherwise; the function returns HTTPD_CGI_DONE
\* with call number ceil(n / ChunkLength) of a file of n bytes, and the
\* counter of the bytes sent never exceeds n.
C18_ChunksTerminate ==
    ValidFile(connData) =>
        LET n == FileLength(connData)
            sends == Sends(wire)
        IN /\ connData.cgiData <= n
           /\ Len(sends) = served.calls
           /\ \A i \in 1..Len(sends) : Len(sends[i].data) <= ChunkLength
           /\ Called =>
                 /\ served.status \in { HTTPD_CGI_MORE, HTTPD_CGI_DONE }
                 /\ served.status = HTTPD_CGI_MORE <=> connData.cgiData < n
                 /\ served.status = HTTPD_CGI_DONE =>
                        served.calls = Chunks(n)
                 /\ served.status = HTTPD_CGI_MORE =>
                        served.calls < Chunks(n)

\* a file of exactly two chunks is done with the second call, not a third
C18_Witness ==
    /\ served.status = HTTPD_CGI_DONE
    /\ served.calls = 2
    /\ FileLength(connData) = 2 * ChunkLength
    /\ connData.cgiData = 2 * ChunkLength
    /\ Len(Sends(wire)[2].data) = ChunkLength

\* the start pointer is null, the end pointer is null, or end <= start
NullOrInverted(c) ==
    \/ c.cgiArg = NULL
    \/ c.cgiArg2 = NULL
    \/ c.cgiArg2 <= c.cgiArg

\* C19: a call for a request whose start pointer is null, whose end pointer
\* is null, or whose end pointer is not above its start pointer returns
\* HTTPD_CGI_NOTFOUND and gives the HTTP engine nothing to send: no status,
\* no header, no byte.
C19_RejectsNullOrInverted ==
    (Called /\ NullOrInverted(connData)) =>
        /\ served.status = HTTPD_CGI_NOTFOUND
        /\ wire = << >>

\* the first three bytes of the file are the magic number of gzip
IsGzip(c) == FileLength(c) >= 3 /\ Bytes(c.cgiArg, 3) = GzipMagic

\* the status and the headers of the response to the request
ResponseHead(c) ==
    << httpdStartResponse(200),
       httpdHeader("Content-Type", httpdGetMimetype(c.url)) >>
    \o (IF IsGzip(c) THEN << httpdHeader("Content-Encoding", "gzip") >>
        ELSE << >>)
    \o << httpdEndHeaders >>

\* C20: over the calls that serve one request of a file, the status 200 and
\* the headers are given to the HTTP engine once, by the first call and
\* before every byte of the body, and nothing but chunks of the body after
\* them; the header `Content-Encoding: gzip` is among them if and only if
\* the first three bytes of the file are 0x1F 0x8B 0x08.
C20_HeadersOnce ==
    ValidFile(connData) =>
        IF ~Called THEN wire = << >>
        ELSE LET head == ResponseHead(connData)
             IN /\ Len(wire) = Len(head) + served.calls
                /\ SubSeq(wire, 1, Len(head)) = head
                /\ \A i \in (Len(head) + 1)..Len(wire) :
                      wire[i].fn = "httpdSend"

\* the third call for a gzip file of two chunks and a byte: one status, one
\* gzip header, three chunks
C20_Witness ==
    /\ served.calls = 3
    /\ FileLength(connData) = 2 * ChunkLength + 1
    /\ Len(wire) = 7
    /\ wire[1] = httpdStartResponse(200)
    /\ wire[3] = httpdHeader("Content-Encoding", "gzip")
    /\ wire[7].fn = "httpdSend"

(***************************************************************************)
(* Properties of the remote core receiving frames of any content.          *)
(***************************************************************************)
\* what the inbound parser is to forward of a message to the flight-control
\* task: the bytes after the tag of a control command
ControlCommand(bytes, length) ==
    IF length >= 2 /\ bytes[1] = "c"
    THEN << SubSeq(bytes, 2, length) >>
    ELSE << >>

\* C21: of every message of length >= 2 whose first byte is `c` the inbound
\* parser forwards the bytes after the tag, as a control command, to the
\* flight-control task; of a message of length < 2, and of a message whose
\* first byte is `s`, `r` or no known tag, it forwards nothing.
C21_ForwardsControl ==
    Received => last.control = ControlCommand(last.bytes, last.input.length)

(***************************************************************************)
(* Properties of the corrections of the axis fusers.                       *)
(***************************************************************************)
Fusers == { "sensors_fuseZ", "sensors_fuseY", "sensors_fuseX" }

\* the mapping of measurements to sensors: the row of z, one-based, that
\* holds the measurement of a sensor on the axis of the fuser named h
RowOf(h) ==
    CASE h = "sensors_fuseZ" ->
           [t \in { SENSORS_ULTRASONIC, SENSORS_ALTIMETER, SENSORS_POSITION }
              |-> CASE t = SENSORS_ULTRASONIC -> 1
                    [] t = SENSORS_ALTIMETER -> 2
                    [] OTHER -> 3]
      [] h = "sensors_fuseY" ->
           [t \in { SENSORS_POSITION, SENSORS_GROUNDSPEED }
              |-> IF t = SENSORS_POSITION THEN 1 ELSE 2]
      [] OTHER -> [t \in { SENSORS_POSITION } |-> 1]

\* the sensors whose measurements are fused on the axis
MappedTo(h) == DOMAIN RowOf(h)

\* the variance of a sensor on the axis
VarianceOf(h, t) ==
    CASE h = "sensors_fuseZ" ->
           (CASE t = SENSORS_ULTRASONIC -> SENSORS_FUSE_Z_ERROR_ULTRASONIC
              [] t = SENSORS_ALTIMETER -> SENSORS_FUSE_Z_ERROR_BAROMETER
              [] OTHER -> SENSORS_FUSE_Z_ERROR_GPS)
      [] h = "sensors_fuseY" ->
           (IF t = SENSORS_POSITION THEN SENSORS_FUSE_Y_ERROR_GPS
            ELSE SENSORS_FUSE_Y_ERROR_VELOCITY)
      [] OTHER -> SENSORS_FUSE_X_ERROR_GPS

\* the step is a call of the fuser named h with a measurement of a sensor
\* that is fused on its axis
Corrects(h) == seen'.handler = h /\ seen'.input.type \in MappedTo(h)

\* C22: a correction event of a sensor of the mapping (Z: ULTRASONIC,
\* ALTIMETER, POSITION; Y: POSITION, GROUNDSPEED; X: POSITION), handed to
\* the fuser of that axis, calls eekf_lazy_correct once, with R holding the
\* variance of the sensor in the row of the sensor and zero elsewhere.
C22_CorrectsOnce ==
    [][\A h \in Fusers :
          Corrects(h) =>
              LET e == seen'.input
                  a == AxisOf(sensors, h)
                  R == [i \in 1..Len(a.z) |->
                          IF i = RowOf(h)[e.type] THEN VarianceOf(h, e.type)
                          ELSE 0]
              IN \E ret \in EekfReturns :
                    LET f == FuserOf(h, a, e, ret)
                    IN /\ AxisOf(sensors', h) = f.axis
                       /\ Len(f.calls) = 1
                       /\ f.calls[1].fn = "eekf_lazy_correct"
                       /\ f.calls[1].noise = R]_vars

\* C23: a correction event handed to an axis fuser writes the measured
\* value into the row of z that the mapping gives its sensor on that axis
\* (Z: row 0 ultrasonic, row 1 altimeter, row 2 position; Y: row 0 position,
\* row 1 ground speed; X: row 0 position) and leaves every other row of z
\* as it is.
C23_WritesOneRow ==
    [][\A h \in Fusers :
          Corrects(h) =>
              LET e == seen'.input
                  z == AxisOf(sensors, h).z
              IN AxisOf(sensors', h).z =
                     [z EXCEPT ![RowOf(h)[e.type]] = e.value]]_vars

\* the step is a call of the fuser named h with a measurement of a sensor
\* that is not fused on its axis
NotFused(h) ==
    /\ seen'.handler = h
    /\ seen'.input.type \notin MappedTo(h) \cup { SENSORS_ACCELERATION }

\* C24: a measurement event of a sensor that is not fused on the axis of
\* the fuser it is handed to (ORIENTATION on every axis, ULTRASONIC and
\* ALTIMETER on Y and X, GROUNDSPEED on Z and X) does nothing: x, P, z and
\* lastTimestamp of the axis are as before, and the fuser calls neither
\* eekf_predict nor eekf_lazy_correct.
C24_UnfusedIsNoOp ==
    [][\A h \in Fusers :
          NotFused(h) =>
              /\ AxisOf(sensors', h) = AxisOf(sensors, h)
              /\ \A ret \in EekfReturns :
                    FuserOf(h, AxisOf(sensors, h), seen'.input, ret).calls
                        = << >>]_vars

\* a GROUNDSPEED event was handed to the fuser of X after a POSITION event
\* had written its row of z and a prediction had moved x: all are still there
C24_Witness ==
    /\ seen.handler = "sensors_fuseX"
    /\ seen.input.type = SENSORS_GROUNDSPEED
    /\ seen.input.value = 1
    /\ sensors.X.z = << 0 - 1 >>
    /\ sensors.X.x # << 0, 0 >>
    /\ fuserCalls = 3

\* the transition of the axis of the fuser named h
TransitionOf(h, x, u, dt) ==
    CASE h = "sensors_fuseZ" -> sensors_fuseZ_transition(x, u, dt)
      [] h = "sensors_fuseY" -> sensors_fuseY_transition(x, u, dt)
      [] OTHER -> sensors_fuseX_transition(x, u, dt)

\* C30: sensors_setHome, that is the reset of each axis, leaves the
\* lastTimestamp of the axis as it is; an ACCELERATION event that comes
\* next with a time-stamp below it is dropped, and one that is accepted is
\* predicted from the reset state over the time since the lastTimestamp of
\* before the reset.
C30_ResetKeepsLastTimestamp ==
    [][/\ seen'.handler = "sensors_setHome" =>
             \A h \in Fusers : AxisOf(sensors', h).lastTimestamp
                                   = AxisOf(sensors, h).lastTimestamp
       /\ \A h \in Fusers :
             (/\ seen.handler = "sensors_setHome"
              /\ seen'.handler = h
              /\ seen'.input.type = SENSORS_ACCELERATION) =>
                 LET e == seen'.input
                     a == AxisOf(sensors, h)
                     b == AxisOf(sensors', h)
                 IN IF e.timestamp < a.lastTimestamp THEN b = a
                    ELSE /\ b.lastTimestamp = e.timestamp
                         /\ \/ b.x = a.x /\ b.P = a.P
                            \/ b.x = TransitionOf(h, << 0, 0 >>, e.value,
                                         e.timestamp - a.lastTimestamp)]_vars

\* sensors_setHome has run after a prediction at time 6: the axis Z is
\* reset and its lastTimestamp is still 6
C30_Witness ==
    /\ seen.handler = "sensors_setHome"
    /\ fuserCalls = 1
    /\ sensors.Z.lastTimestamp = 6
    /\ sensors.Z.x = << 0, 0 >>
    /\ sensors.Z.P = << 0, 0, 0, 1 >>

(***************************************************************************)
(* Properties of the sends into the HTTP engine.                           *)
(***************************************************************************)
\* C25, as the specification states it: cgiWebsocketSend and
\* cgiWebsockBroadcast are called by remote_task only, never by a callback
\* that runs on the task of the HTTP server or of a driver.
C25_SendsOnlyFromTask == last.sent # << >> => TaskRan

\* C25, as the code has it: cgiWebsockBroadcast is called by remote_task
\* only, and so is cgiWebsocketSend but for one call: remote_wsConnect, on
\* the task of the HTTP server, sends the greeting "quadro2" to the session
\* that has just been opened; no other callback sends.
C25_SendsFromTaskOrGreeting ==
    last.sent # << >> =>
        \/ /\ TaskRan
           /\ \A i \in 1..Len(last.sent) : last.sent[i].by = "remote_task"
        \/ /\ last.handler = "remote_wsConnect"
           /\ last.sent = << Send("httpd", "cgiWebsocketSend", sessions, NULL,
                                  HelloData, 7) >>

\* remote_wsConnect has sent the greeting while the queue holds a message
\* that remote_task is yet to send
C25_Witness ==
    /\ last.handler = "remote_wsConnect"
    /\ Len(last.sent) = 1
    /\ last.sent[1].kind = "cgiWebsocketSend"
    /\ \E i \in 1..Len(xRemote_input) :
          xRemote_input[i].type = REMOTE_INPUT_MESSAGE_SEND

(***************************************************************************)
(* Properties of the message buffers.                                      *)
(***************************************************************************)
\* the events of the queue that carry a message buffer
Carrying ==
    { i \in 1..Len(xRemote_input) :
        xRemote_input[i].type \in { REMOTE_INPUT_MESSAGE_RECEIVE,
                                    REMOTE_INPUT_MESSAGE_SEND } }

\* C26: every message buffer that an event carries was allocated with at
\* most MessageCap (128) bytes, whichever producer allocated it and whatever
\* the size of its input, and the length that the event records is at most
\* MessageCap.
C26_BuffersCapped ==
    /\ \A b \in BufIds : heap[b].state = "live" => heap[b].size <= MessageCap
    /\ \A i \in Carrying : xRemote_input[i].length <= MessageCap

\* C27: the length that a MESSAGE_RECEIVE event records is the number of
\* bytes that remote_wsReceive copied into the buffer of the event, for a
\* frame of every length, those of 256 bytes and more included.
C27_LengthIsCopied ==
    \A i \in Carrying :
        xRemote_input[i].type = REMOTE_INPUT_MESSAGE_RECEIVE =>
            xRemote_input[i].length = heap[xRemote_input[i].data].written

(***************************************************************************)
(* Properties of the heartbeat over a run.  Time-stamps are ages that Tick *)
(* shifts together, so two of them are compared within one iteration of    *)
(* remote_task, which takes no time.                                       *)
(***************************************************************************)
\* C28: lastContact never moves to an earlier value: no iteration of
\* remote_task, whether it processes a MESSAGE_RECEIVE (and assigns the
\* time-stamp of its enqueueing) or sends a ping (and assigns the current
\* time), leaves lastContact before the value it had, a message enqueued
\* before a ping and dequeued after that ping included.
C28_LastContactNonDecreasing ==
    [][last'.handler = "remote_task" => lastContact' >= lastContact]_vars

\* an iteration of remote_task that processes no MESSAGE_RECEIVE
LinkStaysLost ==
    /\ last'.handler = "remote_task"
    /\ last'.input.type # REMOTE_INPUT_MESSAGE_RECEIVE

\* its heartbeat check qualifies: a session is counted, the window is over
Qualifies == last'.connected # 0 /\ now - lastContact > HeartbeatWindow

\* C29: while no MESSAGE_RECEIVE is processed the stop is not latched: the
\* first qualifying heartbeat check after a stop broadcasts a new "s?", a
\* stop follows a ping and a ping follows no ping, so that pings and stops
\* alternate and one "s?" is broadcast between two consecutive stops.
C29_StopNotLatched ==
    [][LinkStaysLost =>
          /\ beats[2] = "timeout" /\ Qualifies =>
                 /\ last'.branch = "ping"
                 /\ last'.sent # << >>
                 /\ last'.sent[Len(last'.sent)] = PingSend
          /\ last'.branch = "timeout" => beats[2] = "ping"
          /\ last'.branch = "ping" => beats[2] # "ping"
          /\ last'.branch = "none" => beats' = beats]_vars

\* the ping that follows a stop of a link that stays lost
C29_Witness ==
    /\ TaskRan
    /\ last.input.type # REMOTE_INPUT_MESSAGE_RECEIVE
    /\ last.branch = "ping"
    /\ last.sent = << PingSend >>
    /\ beats = << "timeout", "ping" >>
    /\ timeoutPending

(***************************************************************************)
(* Properties of the producers of MESSAGE_SEND events.                     *)
(***************************************************************************)
\* C31: no producer of MESSAGE_SEND events writes outside its buffer of
\* MessageCap (128) bytes: for every command that remote_sendCommand accepts
\* the 'c', the command and its terminator fit in the buffer, and no
\* producer enqueues a length that covers bytes it did not write.
C31_WritesInsideBuffer ==
    \A i \in Carrying :
        xRemote_input[i].type = REMOTE_INPUT_MESSAGE_SEND =>
            LET buffer == heap[xRemote_input[i].data]
            IN /\ buffer.size = MessageCap
               /\ buffer.written <= buffer.size
               /\ xRemote_input[i].length <= buffer.written

\* the half of it that concerns the lengths alone
LengthsAreWritten ==
    \A i \in Carrying :
        xRemote_input[i].type = REMOTE_INPUT_MESSAGE_SEND =>
            xRemote_input[i].length <= heap[xRemote_input[i].data].written

====
